---- MODULE Spec2Model ----
(***************************************************************************)
(* A model of gmolau/codeowners: the breadth-first traversal that finds    *)
(* the CODEOWNERS files under a root (walkCodeownersFiles), the rewriting  *)
(* of their rules (processCodeownersFile and what it calls) and the        *)
(* aggregation in RewriteCodeownersRules.                                  *)
(*                                                                         *)
(* A Go string is a sequence of one-character strings, so that prefixes,   *)
(* suffixes, splitting and path cleaning are computed character by         *)
(* character as the library functions compute them.                        *)
(***************************************************************************)
EXTENDS Naturals, Sequences, FiniteSets

\* ------------------------------------------------------------------------
\* Bounds of the model
\* ------------------------------------------------------------------------

\* Directories below the root in a modelled file tree (also its depth bound).
MaxDirs == 3

\* Characters of the content of the rule file whose rewriting is explored
\* exhaustively.
MaxContentLen == 4

\* ------------------------------------------------------------------------
\* Constants of the program
\* ------------------------------------------------------------------------

codeownersFileName == <<"C", "O", "D", "E", "O", "W", "N", "E", "R", "S">>

codeownersCommentPrefix == <<"#">>

generatedFileName ==
    <<".", "g", "i", "t", "h", "u", "b", "/",
      "C", "O", "D", "E", "O", "W", "N", "E", "R", "S">>

\* ------------------------------------------------------------------------
\* Strings
\* ------------------------------------------------------------------------

\* The byte of a character: Go compares strings byte by byte.
ByteOf(c) ==
    CASE c = "\t" -> 9
      [] c = "\n" -> 10
      [] c = " " -> 32
      [] c = "#" -> 35
      [] c = "*" -> 42
      [] c = "." -> 46
      [] c = "/" -> 47
      [] c = "@" -> 64
      [] c = "C" -> 67
      [] c = "D" -> 68
      [] c = "E" -> 69
      [] c = "N" -> 78
      [] c = "O" -> 79
      [] c = "R" -> 82
      [] c = "S" -> 83
      [] c = "W" -> 87
      [] c = "a" -> 97
      [] c = "b" -> 98
      [] c = "d" -> 100
      [] c = "f" -> 102
      [] c = "g" -> 103
      [] c = "h" -> 104
      [] c = "i" -> 105
      [] c = "m" -> 109
      [] c = "o" -> 111
      [] c = "r" -> 114
      [] c = "t" -> 116
      [] c = "u" -> 117

\* s < t for Go strings.
RECURSIVE StringLess(_, _)
StringLess(s, t) ==
    IF t = <<>> THEN FALSE
    ELSE IF s = <<>> THEN TRUE
    ELSE IF Head(s) = Head(t) THEN StringLess(Tail(s), Tail(t))
    ELSE ByteOf(Head(s)) < ByteOf(Head(t))

\* strings.HasPrefix
HasPrefix(s, prefix) ==
    /\ Len(prefix) <= Len(s)
    /\ SubSeq(s, 1, Len(prefix)) = prefix

\* strings.HasSuffix
HasSuffix(s, suffix) ==
    /\ Len(suffix) <= Len(s)
    /\ SubSeq(s, Len(s) - Len(suffix) + 1, Len(s)) = suffix

\* strings.Contains(s, c) for a one-character c.
Contains(s, c) == \E i \in 1..Len(s) : s[i] = c

\* unicode.IsSpace, on the characters of the model.
IsSpace(c) == c \in {" ", "\t", "\n"}

\* strings.TrimSpace
RECURSIVE TrimLeft(_)
TrimLeft(s) ==
    IF s # <<>> /\ IsSpace(Head(s)) THEN TrimLeft(Tail(s)) ELSE s

RECURSIVE TrimRight(_)
TrimRight(s) ==
    IF s # <<>> /\ IsSpace(s[Len(s)])
    THEN TrimRight(SubSeq(s, 1, Len(s) - 1))
    ELSE s

TrimSpace(s) == TrimRight(TrimLeft(s))

\* The index of the first c in s, 0 when there is none (strings.Index).
RECURSIVE IndexFrom(_, _, _)
IndexFrom(s, c, i) ==
    IF i > Len(s) THEN 0
    ELSE IF s[i] = c THEN i
    ELSE IndexFrom(s, c, i + 1)

Index(s, c) == IndexFrom(s, c, 1)

\* The index of the last c in s, 0 when there is none (strings.LastIndex).
RECURSIVE LastIndexFrom(_, _, _)
LastIndexFrom(s, c, i) ==
    IF i = 0 THEN 0
    ELSE IF s[i] = c THEN i
    ELSE LastIndexFrom(s, c, i - 1)

LastIndex(s, c) == LastIndexFrom(s, c, Len(s))

\* strings.Split(s, c) for a one-character separator.
RECURSIVE Split(_, _)
Split(s, c) ==
    LET i == Index(s, c)
    IN  IF i = 0 THEN <<s>>
        ELSE <<SubSeq(s, 1, i - 1)>> \o Split(SubSeq(s, i + 1, Len(s)), c)

\* strings.SplitN(s, c, 2) for a one-character separator.
SplitN2(s, c) ==
    LET i == Index(s, c)
    IN  IF i = 0 THEN <<s>>
        ELSE <<SubSeq(s, 1, i - 1), SubSeq(s, i + 1, Len(s))>>

\* strings.Join(parts, c)
RECURSIVE JoinStrings(_, _)
JoinStrings(parts, c) ==
    IF parts = <<>> THEN <<>>
    ELSE IF Len(parts) = 1 THEN parts[1]
    ELSE parts[1] \o <<c>> \o JoinStrings(Tail(parts), c)

\* ------------------------------------------------------------------------
\* Paths (path/filepath on a system whose separator is '/')
\* ------------------------------------------------------------------------

\* The elements of a path that filepath.Clean keeps, in order: empty and
\* "." elements go, ".." removes the element before it, and is itself
\* dropped at the start of a rooted path and kept at the start of a
\* relative one.
RECURSIVE CleanElems(_, _, _)
CleanElems(elems, kept, rooted) ==
    IF elems = <<>> THEN kept
    ELSE LET e == Head(elems)
             rest == Tail(elems)
         IN  IF e = <<>> \/ e = <<".">> THEN CleanElems(rest, kept, rooted)
             ELSE IF e = <<".", ".">>
             THEN IF kept # <<>> /\ kept[Len(kept)] # <<".", ".">>
                  THEN CleanElems(rest, SubSeq(kept, 1, Len(kept) - 1), rooted)
                  ELSE IF rooted THEN CleanElems(rest, kept, rooted)
                  ELSE CleanElems(rest, Append(kept, e), rooted)
             ELSE CleanElems(rest, Append(kept, e), rooted)

\* filepath.Clean
Clean(path) ==
    IF path = <<>> THEN <<".">>
    ELSE LET rooted == Head(path) = "/"
             kept == CleanElems(Split(path, "/"), <<>>, rooted)
         IN  IF rooted THEN <<"/">> \o JoinStrings(kept, "/")
             ELSE IF kept = <<>> THEN <<".">>
             ELSE JoinStrings(kept, "/")

\* filepath.Join of two elements: empty elements are ignored, the rest are
\* joined by the separator and the result is cleaned.
Join(a, b) ==
    IF a = <<>> /\ b = <<>> THEN <<>>
    ELSE IF a = <<>> THEN Clean(b)
    ELSE IF b = <<>> THEN Clean(a)
    ELSE Clean(a \o <<"/">> \o b)

\* filepath.Base: the last element of the path, trailing separators removed.
RECURSIVE StripSlashes(_)
StripSlashes(path) ==
    IF path # <<>> /\ path[Len(path)] = "/"
    THEN StripSlashes(SubSeq(path, 1, Len(path) - 1))
    ELSE path

Base(path) ==
    IF path = <<>> THEN <<".">>
    ELSE LET p == StripSlashes(path)
         IN  IF p = <<>> THEN <<"/">>
             ELSE SubSeq(p, LastIndex(p, "/") + 1, Len(p))

\* filepath.Dir: all but the last element of the path, cleaned.
Dir(path) == Clean(SubSeq(path, 1, LastIndex(path, "/")))

\* The elements of a clean path.
Elems(path) ==
    LET parts == Split(path, "/")
    IN  SelectSeq(parts, LAMBDA e : e # <<>>)

\* The length of the longest common prefix of two sequences.
RECURSIVE CommonLen(_, _)
CommonLen(s, t) ==
    IF s = <<>> \/ t = <<>> \/ Head(s) # Head(t) THEN 0
    ELSE 1 + CommonLen(Tail(s), Tail(t))

\* filepath.Rel for two absolute paths: the elements of targ below the
\* common ancestor, after one ".." for every element of base below it.
Rel(base, targ) ==
    LET b == Elems(Clean(base))
        t == Elems(Clean(targ))
        k == CommonLen(b, t)
        ups == [i \in 1..(Len(b) - k) |-> <<".", ".">>]
        elems == ups \o SubSeq(t, k + 1, Len(t))
    IN  IF elems = <<>> THEN <<".">> ELSE JoinStrings(elems, "/")

\* ------------------------------------------------------------------------
\* The Rule Rewriter
\* ------------------------------------------------------------------------

\* isCodeownersRule: a line is processed unless it is whitespace or starts
\* with the comment prefix.
isCodeownersRule(line) ==
    LET isWhitespace == TrimSpace(line) = <<>>
        isComment == HasPrefix(line, codeownersCommentPrefix)
    IN  ~isWhitespace /\ ~isComment

\* rewriteCodeownersPath: the directory of the CODEOWNERS file, relative
\* to the root, behind a "/".
rewriteCodeownersPath(rootPath, path) == <<"/">> \o Rel(rootPath, Dir(path))

\* isDirRule: the first token of the rule, up to its first space, contains
\* an "@".
isDirRule(rule) ==
    LET tokens == SplitN2(rule, " ")
    IN  Len(tokens) >= 1 /\ Contains(tokens[1], "@")

\* A rewriteDirRule without the glob for the root.
rewriteDirRuleNoGlob(path, rule) == path \o <<" ">> \o rule

\* rewriteDirRule: the path before the whole rule; the path "/." of a
\* CODEOWNERS file in the root becomes the glob "*".
rewriteDirRule(path, rule) ==
    LET target == IF path = <<"/", ".">> THEN <<"*">> ELSE path
    IN  target \o <<" ">> \o rule

\* rewriteNonDirRule: nothing for a rule of one token; else the path joined
\* with the trimmed first token, before the trimmed rest.
rewriteNonDirRule(path, rule) ==
    LET tokens == SplitN2(rule, " ")
    IN  IF Len(tokens) < 2 THEN <<>>
        ELSE Join(path, TrimSpace(tokens[1])) \o <<" ">> \o TrimSpace(tokens[2])

\* rewriteCodeownersRule
rewriteCodeownersRule(rewrittenPath, rule) ==
    IF isDirRule(rule)
    THEN rewriteDirRule(rewrittenPath, rule)
    ELSE rewriteNonDirRule(rewrittenPath, rule)

\* The loop body of processCodeownersFile for one line: what the line adds
\* to the rewritten rules, the empty string when it adds nothing.
RewrittenLine(rewrittenPath, line) ==
    IF isCodeownersRule(line)
    THEN rewriteCodeownersRule(rewrittenPath, line)
    ELSE <<>>

\* readCodeownersFile, once the file is read: its lines.
FileLines(text) == Split(text, "\n")

\* processCodeownersFile, once the file is read: the non-empty rewritten
\* rules of its lines, in the order of the lines.
processCodeownersFile(rootPath, path, text) ==
    LET rewrittenPath == rewriteCodeownersPath(rootPath, path)
        lines == FileLines(text)
        rewritten == [i \in 1..Len(lines) |-> RewrittenLine(rewrittenPath, lines[i])]
    IN  SelectSeq(rewritten, LAMBDA r : r # <<>>)

\* ------------------------------------------------------------------------
\* The file tree, the ignore rules and the state of a run
\* ------------------------------------------------------------------------

VARIABLES
    root,            \* the validated root: a clean absolute path
    tree,            \* the directory entries below the root:
                     \*   [dir: the directory, name, isDir]
    content,         \* the text of every CODEOWNERS file, by its path
    ignore,          \* the result of initGitignore:
                     \*   [isNil, base, ignored: the paths Match reports ignored]
    mayFail,         \* whether opening and reading can fail in this file system
    pc,              \* "start", "walk" or "done"
    dirQueue,        \* the queue of walkCodeownersFiles
    rewrittenRules,  \* the rules RewriteCodeownersRules has accumulated
    err,             \* the error walkCodeownersFiles returns, NoError for nil
    result,          \* what RewriteCodeownersRules returned: [rules, err]
    ioLog,           \* every directory and file opened so far, in order:
                     \*   [path, isDir, failed]
    enqueued,        \* every path put on the queue so far
    lineLog          \* every line processed so far, in order, and what it
                     \*   added: [file, line, rule]

vars ==
    <<root, tree, content, ignore, mayFail, pc, dirQueue, rewrittenRules, err,
      result, ioLog, enqueued, lineLog>>

\* An error: the messages from the outermost wrapping inwards, and the path
\* the innermost message names.
NoError == [msg |-> <<>>, path |-> <<>>]

Errorf(message, path) == [msg |-> <<message>>, path |-> path]

\* fmt.Errorf("...: %w", e)
Wrap(message, e) == [msg |-> <<message>> \o e.msg, path |-> e.path]

\* os.ReadDir of a directory that can be read: its entries, as a set.
ReadDir(dir) == {e \in tree : e.dir = dir}

\* ------------------------------------------------------------------------
\* The Traverser
\* ------------------------------------------------------------------------

\* initGitignore: nil when the repository's ignore files cannot be used.
NilIgnore == [isNil |-> TRUE, base |-> <<>>, ignored |-> {}]

\* ignore.Match(path), then match.Ignore(): no match counts as not ignored.
MatchIgnore(ign, path) == path \in ign.ignored

\* A shouldIgnoreDir without the test for ".git".
shouldIgnoreDirNoGit(ign, path) ==
    IF ign.isNil \/ ign.base = path THEN FALSE
    ELSE MatchIgnore(ign, path)

\* shouldIgnoreDir
shouldIgnoreDir(ign, path) ==
    IF Base(path) = <<".", "g", "i", "t">> THEN TRUE
    ELSE IF ign.isNil \/ ign.base = path THEN FALSE
    ELSE MatchIgnore(ign, path)

\* isCodeownersFile
isCodeownersFile(d) == ~d.isDir /\ d.name = codeownersFileName

\* The skipping of the target file in the loop of walkCodeownersFiles.
IsGeneratedFile(path) == HasSuffix(path, generatedFileName)

\* sort.Slice(dirEntries, by Name()), as an insertion sort: the names of
\* the entries of a directory are distinct, so the result is the same for
\* every sorting algorithm.
RECURSIVE InsertByName(_, _)
InsertByName(sorted, d) ==
    IF sorted = <<>> THEN <<d>>
    ELSE IF StringLess(d.name, Head(sorted).name) THEN <<d>> \o sorted
    ELSE <<Head(sorted)>> \o InsertByName(Tail(sorted), d)

\* A walk that forgets to sort: the entries as the file system lists them.
SortByNameUnsorted(dirEntries) == dirEntries

RECURSIVE SortByName(_)
SortByName(dirEntries) ==
    IF dirEntries = <<>> THEN <<>>
    ELSE InsertByName(SortByName(SubSeq(dirEntries, 1, Len(dirEntries) - 1)),
                      dirEntries[Len(dirEntries)])

\* The state of the loop over the entries of one directory.
\*   queue, rules, io, enq, lines: dirQueue, rewrittenRules, ioLog,
\*   enqueued and lineLog as the loop has left them; failure: the error the
\*   loop returned with, NoError while it runs.

\* procFn, the closure of RewriteCodeownersRules, on one CODEOWNERS file.
\* fileOutcome is what opening and reading the file does: "ok", "open"
\* (os.Open fails) or "read" (io.ReadAll fails).
procFn(st, path, fileOutcome) ==
    IF fileOutcome = "open"
    THEN [st EXCEPT !.failure = Errorf("can't open CODEOWNERS file", path),
                    !.io = Append(@, [path |-> path, isDir |-> FALSE, failed |-> TRUE])]
    ELSE IF fileOutcome = "read"
    THEN [st EXCEPT !.failure = Errorf("can't read CODEOWNERS file", path),
                    !.io = Append(@, [path |-> path, isDir |-> FALSE, failed |-> TRUE])]
    ELSE LET rewrittenPath == rewriteCodeownersPath(root, path)
             fileLines == FileLines(content[path])
         IN  [st EXCEPT
                 !.rules = @ \o processCodeownersFile(root, path, content[path]),
                 !.io = Append(@, [path |-> path, isDir |-> FALSE, failed |-> FALSE]),
                 !.lines = @ \o [i \in 1..Len(fileLines) |->
                                    [file |-> path,
                                     line |-> fileLines[i],
                                     rule |-> RewrittenLine(rewrittenPath, fileLines[i])]]]

\* The loop "for _, dirEntry := range dirEntries" of walkCodeownersFiles.
RECURSIVE RangeDirEntries(_, _, _, _)
RangeDirEntries(dirEntries, currentDir, fileOutcome, st) ==
    IF dirEntries = <<>> \/ st.failure # NoError THEN st
    ELSE LET dirEntry == Head(dirEntries)
             path == Join(currentDir, dirEntry.name)
             next ==
                 IF isCodeownersFile(dirEntry)
                 THEN IF IsGeneratedFile(path) THEN st
                      ELSE procFn(st, path, fileOutcome)
                 ELSE IF dirEntry.isDir
                 THEN [st EXCEPT !.queue = Append(@, path),
                                 !.enq = @ \cup {path}]
                 ELSE st
         IN  RangeDirEntries(Tail(dirEntries), currentDir, fileOutcome, next)

\* The orders in which the file system may list a set of entries.
RECURSIVE Listings(_)
Listings(entries) ==
    IF entries = {} THEN {<<>>}
    ELSE UNION {{<<e>> \o l : l \in Listings(entries \ {e})} : e \in entries}

\* What opening and listing a directory may do: succeed, fail in os.Open,
\* fail in ReadDir.
DirOutcomes == IF mayFail THEN {"ok", "open", "read"} ELSE {"ok"}

\* What opening and reading the CODEOWNERS file of a directory may do, when
\* it has one: succeed, fail in os.Open, fail in io.ReadAll.
FileOutcomes(dir) ==
    IF mayFail /\ \E d \in ReadDir(dir) : isCodeownersFile(d)
    THEN {"ok", "open", "read"}
    ELSE {"ok"}

\* A RewriteCodeownersRules that returns the rules accumulated so far
\* beside the error.
ReturnValuePartial(rules, e) ==
    IF e # NoError
    THEN [rules |-> rules,
          err |-> Wrap("error while processing CODEOWNERS files", e)]
    ELSE [rules |-> rules, err |-> NoError]

\* What RewriteCodeownersRules returns once walkCodeownersFiles has
\* returned e.
ReturnValue(rules, e) ==
    IF e # NoError
    THEN [rules |-> <<>>,
          err |-> Wrap("error while processing CODEOWNERS files", e)]
    ELSE [rules |-> rules, err |-> NoError]

\* ------------------------------------------------------------------------
\* Actions
\* ------------------------------------------------------------------------

\* RewriteCodeownersRules up to the loop of walkCodeownersFiles: the root
\* is valid, the ignore rules are there, the queue holds the root.
Start ==
    /\ pc = "start"
    /\ pc' = "walk"
    /\ dirQueue' = Append(dirQueue, root)
    /\ enqueued' = enqueued \cup {root}
    /\ UNCHANGED <<root, tree, content, ignore, mayFail, rewrittenRules, err,
                   result, ioLog, lineLog>>

\* One iteration of "for dirQueue.Len() > 0" and, when it is the last one
\* (it returns an error, or leaves the queue empty), the return of
\* walkCodeownersFiles and of RewriteCodeownersRules. dirOutcome is what
\* opening and listing the directory does ("ok", "open": os.Open fails,
\* "read": ReadDir fails), dirEntries the sorted listing for one of the
\* orders the file system may list the directory in.
WalkStep ==
    /\ pc = "walk"
    /\ dirQueue # <<>>
    /\ LET currentDir == Head(dirQueue)
           rest == Tail(dirQueue)
       IN  IF shouldIgnoreDir(ignore, currentDir)
           THEN /\ dirQueue' = rest
                /\ UNCHANGED <<rewrittenRules, err, ioLog, enqueued, lineLog>>
           ELSE \E dirOutcome \in DirOutcomes :
                  IF dirOutcome # "ok"
                  THEN /\ err' = Errorf(IF dirOutcome = "open"
                                        THEN "error while opening dir"
                                        ELSE "error while reading dir", currentDir)
                       /\ ioLog' = Append(ioLog, [path |-> currentDir,
                                                  isDir |-> TRUE,
                                                  failed |-> TRUE])
                       /\ dirQueue' = rest
                       /\ UNCHANGED <<rewrittenRules, enqueued, lineLog>>
                  ELSE \E dirEntries \in
                              {SortByName(listing) : listing \in Listings(ReadDir(currentDir))},
                          fileOutcome \in FileOutcomes(currentDir) :
                         LET st == RangeDirEntries(
                                     dirEntries, currentDir, fileOutcome,
                                     [queue |-> rest,
                                      rules |-> rewrittenRules,
                                      io |-> Append(ioLog, [path |-> currentDir,
                                                            isDir |-> TRUE,
                                                            failed |-> FALSE]),
                                      enq |-> enqueued,
                                      lines |-> lineLog,
                                      failure |-> NoError])
                         IN  /\ dirQueue' = st.queue
                             /\ rewrittenRules' = st.rules
                             /\ ioLog' = st.io
                             /\ enqueued' = st.enq
                             /\ lineLog' = st.lines
                             /\ err' = st.failure
    /\ IF err' # NoError \/ dirQueue' = <<>>
       THEN /\ pc' = "done"
            /\ result' = ReturnValue(rewrittenRules', err')
       ELSE UNCHANGED <<pc, result>>
    /\ UNCHANGED <<root, tree, content, ignore, mayFail>>

Next == Start \/ WalkStep

\* ------------------------------------------------------------------------
\* Initial states: the file trees and ignore rules a run may find
\* ------------------------------------------------------------------------

\* The roots: an ordinary directory, and a directory that is itself named
\* ".git".
Roots == {<<"/", "r">>, <<"/", ".", "g", "i", "t">>}

\* The names of the directories of the modelled trees.
DirNames ==
    {<<"a">>, <<"b">>, <<".", "g", "i", "t">>,
     <<".", "g", "i", "t", "h", "u", "b">>}

\* A plain file that is no CODEOWNERS file, present in every root.
OtherFileName == <<"g", "o", ".", "m", "o", "d">>

\* The sets of at most n directories, each given by its names from the
\* root down, that hold the parent of each of their members.
RECURSIVE Trees(_)
Trees(n) ==
    IF n = 0 THEN {{}}
    ELSE LET smaller == Trees(n - 1)
         IN  smaller \cup
             UNION {UNION {{t \cup {Append(parent, name)} : name \in DirNames}
                           : parent \in t \cup {<<>>}}
                    : t \in smaller}

\* The names of directories that the program treats specially.
SpecialNames == {<<".", "g", "i", "t">>, <<".", "g", "i", "t", "h", "u", "b">>}

\* The trees of at most n directories of which at most one has a special
\* name.
TreeChoices(n) ==
    {t \in Trees(n) : Cardinality({d \in t : d[Len(d)] \in SpecialNames}) <= 1}

\* The absolute path of the directory with these names below rootPath.
RECURSIVE PathOf(_, _)
PathOf(rootPath, names) ==
    IF names = <<>> THEN rootPath
    ELSE PathOf(rootPath \o <<"/">> \o Head(names), Tail(names))

\* The entries of a tree: its directories, a CODEOWNERS file in each
\* directory of withRules, and the other plain file in the root.
EntriesOf(rootPath, dirs, withRules) ==
    {[dir |-> PathOf(rootPath, SubSeq(d, 1, Len(d) - 1)),
      name |-> d[Len(d)],
      isDir |-> TRUE] : d \in dirs}
    \cup {[dir |-> PathOf(rootPath, d),
           name |-> codeownersFileName,
           isDir |-> FALSE] : d \in withRules}
    \cup {[dir |-> rootPath, name |-> OtherFileName, isDir |-> FALSE]}

\* The path of the CODEOWNERS file of the directory with these names.
RuleFileOf(rootPath, names) ==
    PathOf(rootPath, names) \o <<"/">> \o codeownersFileName

\* The directories of a tree that can hold a CODEOWNERS file: those with no
\* directory of that name.
CanHoldRules(dirs) ==
    {d \in dirs \cup {<<>>} : Append(d, codeownersFileName) \notin dirs}

\* Where the CODEOWNERS files of a tree are: in every directory, or in
\* every directory but the root.
RuleChoices(dirs) == {CanHoldRules(dirs), CanHoldRules(dirs) \ {<<>>}}

\* The ignore rules: none, or rules that report one of the directories (the
\* root among them) ignored.
IgnoreChoices(rootPath, dirs) ==
    {NilIgnore}
    \cup {[isNil |-> FALSE, base |-> rootPath, ignored |-> {PathOf(rootPath, d)}]
          : d \in dirs \cup {<<>>}}

\* The text of every CODEOWNERS file of the trees walked: a directory rule
\* and a file rule.
WalkText == <<"@", "o", "\n", "f", " ", "@", "o", "\n">>

InitWith(rootPath, dirs, withRules, ign, textOf, failing) ==
    /\ root = rootPath
    /\ tree = EntriesOf(rootPath, dirs, withRules)
    /\ content = [f \in {RuleFileOf(rootPath, d) : d \in withRules}
                    |-> textOf[f]]
    /\ ignore = ign
    /\ mayFail = failing
    /\ pc = "start"
    /\ dirQueue = <<>>
    /\ rewrittenRules = <<>>
    /\ err = NoError
    /\ result = [rules |-> <<>>, err |-> NoError]
    /\ ioLog = <<>>
    /\ enqueued = {}
    /\ lineLog = <<>>

Init ==
    \E rootPath \in Roots, dirs \in TreeChoices(MaxDirs) :
        \E withRules \in RuleChoices(dirs),
           ign \in IgnoreChoices(rootPath, dirs) :
            InitWith(rootPath, dirs, withRules, ign,
                     [f \in {RuleFileOf(rootPath, d)
                             : d \in withRules} |-> WalkText],
                     TRUE)

Spec == Init /\ [][Next]_vars

\* The characters of the rule files whose rewriting is explored
\* exhaustively.
Alphabet == {"a", "@", " ", "\t", "#", ".", "/", "\n"}

Texts == UNION {[1..n -> Alphabet] : n \in 0..MaxContentLen}

\* Two CODEOWNERS files with the same text, any text: one in the root and
\* one in the directory a, in a file system that does not fail.
InitRewrite ==
    \E text \in Texts :
        LET rootPath == <<"/", "r">>
            dirs == {<<<<"a">>>>}
            withRules == {<<>>, <<<<"a">>>>}
        IN  InitWith(rootPath, dirs, withRules, NilIgnore,
                     [f \in {RuleFileOf(rootPath, d) : d \in withRules} |-> text],
                     FALSE)

SpecRewrite == InitRewrite /\ [][Next]_vars

\* ------------------------------------------------------------------------
\* What the properties speak of
\* ------------------------------------------------------------------------

Done == pc = "done"

\* The path of an entry of the tree, by concatenation.
EntryPath(e) == e.dir \o <<"/">> \o e.name

\* p lies below the directory d.
IsBelow(p, d) == HasPrefix(p, d \o <<"/">>)

\* The directories opened so far, the files handed to the rule rewriter so
\* far and the files read so far, in order.
OpenedDirs == SelectSeq(ioLog, LAMBDA x : x.isDir)

YieldedFiles == SelectSeq(ioLog, LAMBDA x : ~x.isDir)

ReadFiles == SelectSeq(ioLog, LAMBDA x : ~x.isDir /\ ~x.failed)

PathsOf(log) == {log[i].path : i \in DOMAIN log}

\* The reserved output file of the root.
ReservedOutputFile == root \o <<"/">> \o generatedFileName

\* The directory a logged path belongs to: itself for a directory, the
\* directory holding it for a file.
HomeOf(x) ==
    IF x.isDir THEN x.path
    ELSE SubSeq(x.path, 1, Len(x.path) - Len(codeownersFileName) - 1)

\* s before t in the lexicographic order of their elements, each element
\* compared as a string.
RECURSIVE ElemsLess(_, _)
ElemsLess(s, t) ==
    IF t = <<>> THEN FALSE
    ELSE IF s = <<>> THEN TRUE
    ELSE IF Head(s) = Head(t) THEN ElemsLess(Tail(s), Tail(t))
    ELSE StringLess(Head(s), Head(t))

\* The directory p comes before the directory q in breadth-first order:
\* it is less deep, or as deep and before q in the order of the names from
\* the root down.
BreadthFirstLess(p, q) ==
    \/ Len(Elems(p)) < Len(Elems(q))
    \/ /\ Len(Elems(p)) = Len(Elems(q))
       /\ ElemsLess(Elems(p), Elems(q))

\* The concatenation of a sequence of sequences.
RECURSIVE Flatten(_)
Flatten(seqs) ==
    IF seqs = <<>> THEN <<>> ELSE Head(seqs) \o Flatten(Tail(seqs))

\* The rules that the lines processed so far have added, in order.
RulesOfLines ==
    LET added == SelectSeq(lineLog, LAMBDA x : x.rule # <<>>)
    IN  [i \in DOMAIN added |-> added[i].rule]

\* ------------------------------------------------------------------------
\* C2: breadth-first order, whatever the order of the listings
\* ------------------------------------------------------------------------

\* The directories of the tree, the root among them, that the walk of this
\* tree opens when nothing fails: none of the directories from the root
\* down to them is one that shouldIgnoreDir drops.
WalkedDirs ==
    {d \in {root} \cup {EntryPath(e) : e \in {x \in tree : x.isDir}} :
        \A a \in {root} \cup {EntryPath(e) : e \in {x \in tree : x.isDir}} :
            (a = d \/ IsBelow(d, a)) => ~shouldIgnoreDir(ignore, a)}

\* The CODEOWNERS files of those directories that the walk does not skip.
WalkedFiles ==
    {EntryPath(e) : e \in {x \in tree : /\ isCodeownersFile(x)
                                       /\ x.dir \in WalkedDirs
                                       /\ ~IsGeneratedFile(EntryPath(x))}}

\* A set of CODEOWNERS files in the breadth-first order of their
\* directories.
RECURSIVE InBreadthFirstOrder(_)
InBreadthFirstOrder(files) ==
    IF files = {} THEN <<>>
    ELSE LET first == CHOOSE f \in files :
                          \A g \in files \ {f} :
                              BreadthFirstLess(
                                  HomeOf([path |-> f, isDir |-> FALSE]),
                                  HomeOf([path |-> g, isDir |-> FALSE]))
         IN  <<first>> \o InBreadthFirstOrder(files \ {first})

\* C2: in every state, whatever the orders the directories were listed in,
\* the directories wait in the queue, were opened and had their rule files
\* read in breadth-first order from the root (a file right after its
\* directory); the lines
\* processed are the lines of the files read, file by file in that order
\* and line by line in the order of the file, and the accumulated rules
\* are what these lines added, in that order. A run on which nothing
\* failed returns the rules of the rule files of the tree in the
\* breadth-first order of their directories: a list that the tree and the
\* ignore rules determine.
C2_BreadthFirstOrder ==
    /\ \A i, j \in DOMAIN dirQueue :
           i < j => BreadthFirstLess(dirQueue[i], dirQueue[j])
    /\ \A i, j \in DOMAIN ioLog :
           i < j => \/ /\ HomeOf(ioLog[i]) = HomeOf(ioLog[j])
                       /\ ioLog[i].isDir /\ ~ioLog[j].isDir
                    \/ BreadthFirstLess(HomeOf(ioLog[i]), HomeOf(ioLog[j]))
    /\ [i \in DOMAIN lineLog |-> <<lineLog[i].file, lineLog[i].line>>]
         = Flatten([k \in DOMAIN ReadFiles |->
                      [n \in DOMAIN FileLines(content[ReadFiles[k].path]) |->
                          <<ReadFiles[k].path,
                            FileLines(content[ReadFiles[k].path])[n]>>]])
    /\ rewrittenRules = RulesOfLines
    /\ (Done /\ err = NoError) =>
           LET files == InBreadthFirstOrder(WalkedFiles)
           IN  /\ [k \in DOMAIN ReadFiles |-> ReadFiles[k].path] = files
               /\ result.err = NoError
               /\ result.rules =
                      Flatten([k \in DOMAIN files |->
                                 processCodeownersFile(root, files[k], content[files[k]])])

\* A run that has read the rule files of two sibling directories and of a
\* directory one level deeper, and returned their rules.
C2_Witness ==
    /\ Done /\ err = NoError
    /\ \E i, j, k \in DOMAIN ReadFiles :
           /\ i < j /\ j < k
           /\ Len(Elems(HomeOf(ReadFiles[i]))) = Len(Elems(root)) + 1
           /\ Len(Elems(HomeOf(ReadFiles[j]))) = Len(Elems(root)) + 1
           /\ Len(Elems(HomeOf(ReadFiles[k]))) = Len(Elems(root)) + 2
           /\ IsBelow(ReadFiles[k].path, HomeOf(ReadFiles[i]))
    /\ Len(result.rules) >= 6

\* ------------------------------------------------------------------------
\* C3: pruned directories
\* ------------------------------------------------------------------------

\* The directories below the root that are pruned: those the ignore rules
\* report ignored and those named ".git".
PrunedDirs ==
    {EntryPath(e) : e \in {x \in tree : /\ x.isDir
                                       /\ \/ EntryPath(x) \in ignore.ignored
                                          \/ x.name = <<".", "g", "i", "t">>}}

\* C3: a directory below the root that the ignore rules report ignored, or
\* that is named ".git", is never opened; nothing below it is ever put on
\* the queue or opened; no CODEOWNERS file in it or below it is read, has a
\* line processed or adds a rule to the accumulated rules.
C3_Pruning ==
    \A d \in PrunedDirs \ {root} :
        /\ d \notin PathsOf(ioLog)
        /\ \A p \in enqueued \cup PathsOf(ioLog) : ~IsBelow(p, d)
        /\ \A i \in DOMAIN dirQueue : ~IsBelow(dirQueue[i], d)
        /\ \A i \in DOMAIN lineLog : ~IsBelow(lineLog[i].file, d)
        /\ rewrittenRules = RulesOfLines

\* A finished run that returned rules and had put on its queue both a
\* directory named ".git" and a directory reported ignored, at least one
\* of them with a CODEOWNERS file in it.
C3_Witness ==
    /\ Done /\ err = NoError
    /\ result.rules # <<>>
    /\ \E d \in PrunedDirs \ {root} :
           /\ d \in enqueued
           /\ Base(d) = <<".", "g", "i", "t">>
           /\ \E e \in tree : e.dir = d /\ isCodeownersFile(e)
    /\ \E d \in PrunedDirs \ {root} :
           /\ d \in enqueued
           /\ Base(d) # <<".", "g", "i", "t">>
           /\ \E e \in tree : e.dir = d

\* ------------------------------------------------------------------------
\* C8: failures
\* ------------------------------------------------------------------------

\* C8: when opening or listing a directory, or opening or reading a rule
\* file, has failed, it is the last thing the run did: nothing was opened
\* after it, the run is over, and it returned no rules and an error naming
\* the failing path. The run returns an error only then.
C8_FailFast ==
    /\ \A i \in DOMAIN ioLog :
           ioLog[i].failed =>
               /\ i = Len(ioLog)
               /\ Done
               /\ result.rules = <<>>
               /\ result.err # NoError
               /\ result.err.path = ioLog[i].path
    /\ result.err # NoError => ioLog # <<>> /\ ioLog[Len(ioLog)].failed

\* A run that had accumulated rules when a later rule file failed, with a
\* directory still waiting in the queue.
C8_Witness ==
    /\ Done
    /\ ioLog # <<>>
    /\ ioLog[Len(ioLog)].failed
    /\ ~ioLog[Len(ioLog)].isDir
    /\ rewrittenRules # <<>>
    /\ dirQueue # <<>>
    /\ result.rules = <<>>

\* ------------------------------------------------------------------------
\* C1: which files are handed to the rule rewriter
\* ------------------------------------------------------------------------

\* C1: when a run on which nothing failed is over, an entry of a directory
\* it listed was handed to the rule rewriter if and only if it is a plain
\* file named CODEOWNERS other than the reserved output file of the root,
\* and every line of such a file has been processed.
C1_RuleFileDiscovery ==
    (Done /\ err = NoError) =>
        \A e \in tree :
            e.dir \in PathsOf(OpenedDirs) =>
                /\ EntryPath(e) \in PathsOf(YieldedFiles)
                     <=> /\ ~e.isDir
                         /\ e.name = codeownersFileName
                         /\ EntryPath(e) # ReservedOutputFile
                /\ EntryPath(e) \in PathsOf(YieldedFiles) =>
                       \A n \in DOMAIN FileLines(content[EntryPath(e)]) :
                           \E i \in DOMAIN lineLog :
                               /\ lineLog[i].file = EntryPath(e)
                               /\ lineLog[i].line = FileLines(content[EntryPath(e)])[n]

\* ------------------------------------------------------------------------
\* C9: the root
\* ------------------------------------------------------------------------

\* C9: a run that is over has opened the root, whatever the root is named
\* and whatever the ignore rules report; when nothing failed, the
\* CODEOWNERS file of the root was handed to the rule rewriter and the
\* directories of the root were put on the queue.
C9_RootNeverPruned ==
    Done =>
        /\ ioLog # <<>>
        /\ ioLog[1].path = root
        /\ err = NoError =>
               \A e \in tree :
                   e.dir = root =>
                       /\ isCodeownersFile(e) => EntryPath(e) \in PathsOf(YieldedFiles)
                       /\ e.isDir => EntryPath(e) \in enqueued

\* ------------------------------------------------------------------------
\* The format of a rule file, as the properties of the rewriting read it
\* ------------------------------------------------------------------------

\* A blank line: only whitespace.
IsBlankLine(line) == \A i \in DOMAIN line : IsSpace(line[i])

\* A comment line: its first character that is no whitespace is "#".
IsCommentLine(line) ==
    \E i \in DOMAIN line :
        /\ line[i] = "#"
        /\ \A j \in 1..(i - 1) : IsSpace(line[j])

\* A candidate rule: a line that is neither blank nor a comment.
IsCandidateLine(line) == ~IsBlankLine(line) /\ ~IsCommentLine(line)

\* The first token of a line: what stands before its first whitespace run.
FirstToken(line) ==
    IF \E i \in DOMAIN line : IsSpace(line[i])
    THEN SubSeq(line, 1, (CHOOSE i \in DOMAIN line :
                              /\ IsSpace(line[i])
                              /\ \A j \in 1..(i - 1) : ~IsSpace(line[j])) - 1)
    ELSE line

\* What follows the first token of a line.
AfterFirstToken(line) == SubSeq(line, Len(FirstToken(line)) + 1, Len(line))

\* The directory of a CODEOWNERS file relative to the root, behind a "/":
\* the empty string for the file of the root itself.
ScopeOf(file) ==
    SubSeq(file, Len(root) + 1, Len(file) - Len(codeownersFileName) - 1)

\* The scope prefix of a CODEOWNERS file: "/." for the file of the root.
ScopePrefixOf(file) ==
    IF ScopeOf(file) = <<>> THEN <<"/", ".">> ELSE ScopeOf(file)

\* The target of the directory rules of a CODEOWNERS file: the glob "*" for
\* the file of the root.
DirTargetOf(file) ==
    IF ScopeOf(file) = <<>> THEN <<"*">> ELSE ScopeOf(file)

\* ------------------------------------------------------------------------
\* C4: directory rules
\* ------------------------------------------------------------------------

\* C4: every candidate line whose first token contains "@" has added
\* exactly the target of its file ("/" and the directory of the file
\* relative to the root, "*" for the file of the root), a space and the
\* unchanged line; what the lines added are the accumulated rules.
C4_DirRuleRewriting ==
    /\ \A i \in DOMAIN lineLog :
           (/\ IsCandidateLine(lineLog[i].line)
            /\ Contains(FirstToken(lineLog[i].line), "@"))
               => lineLog[i].rule =
                      DirTargetOf(lineLog[i].file) \o <<" ">> \o lineLog[i].line
    /\ rewrittenRules = RulesOfLines

\* A finished run that returned the rule of a line of several owner tokens
\* in the CODEOWNERS file of the root, rewritten with the glob.
C4_Witness ==
    /\ Done /\ err = NoError
    /\ \E i \in DOMAIN lineLog :
           /\ ScopeOf(lineLog[i].file) = <<>>
           /\ Contains(FirstToken(lineLog[i].line), "@")
           /\ TrimSpace(AfterFirstToken(lineLog[i].line)) # <<>>
           /\ lineLog[i].rule = <<"*", " ">> \o lineLog[i].line
           /\ \E k \in DOMAIN result.rules : result.rules[k] = lineLog[i].rule

\* ------------------------------------------------------------------------
\* C5: file and glob rules
\* ------------------------------------------------------------------------

\* C5: every candidate line made of a first token without "@", a
\* whitespace run and an owner list (what follows, with an "@" in it) has
\* added the scope prefix of its file joined with the first token, a space
\* and the trimmed owner list.
C5_FileRuleRewriting ==
    \A i \in DOMAIN lineLog :
        LET line == lineLog[i].line
        IN  (/\ IsCandidateLine(line)
             /\ FirstToken(line) # <<>>
             /\ ~Contains(FirstToken(line), "@")
             /\ Contains(AfterFirstToken(line), "@"))
                => lineLog[i].rule =
                       Join(ScopePrefixOf(lineLog[i].file), FirstToken(line))
                           \o <<" ">> \o TrimSpace(AfterFirstToken(line))

\* ------------------------------------------------------------------------
\* C6: lines without owners
\* ------------------------------------------------------------------------

\* C6: a candidate line that is a target alone, with or without whitespace
\* after it, has added no rule; every accumulated rule has an owner list
\* that is not empty after its target.
C6_MalformedLineDropped ==
    /\ \A i \in DOMAIN lineLog :
           LET line == lineLog[i].line
           IN  (/\ IsCandidateLine(line)
                /\ FirstToken(line) # <<>>
                /\ ~Contains(FirstToken(line), "@")
                /\ TrimSpace(AfterFirstToken(line)) = <<>>)
                   => lineLog[i].rule = <<>>
    /\ \A k \in DOMAIN rewrittenRules :
           TrimSpace(AfterFirstToken(rewrittenRules[k])) # <<>>

\* ------------------------------------------------------------------------
\* C7: comments and blank lines
\* ------------------------------------------------------------------------

\* C7: a comment line, with or without whitespace before its "#", and a
\* blank line have added no rule; the accumulated rules are at most as many
\* as the candidate lines processed.
C7_CommentAndBlankSkipped ==
    /\ \A i \in DOMAIN lineLog :
           (IsCommentLine(lineLog[i].line) \/ IsBlankLine(lineLog[i].line))
               => lineLog[i].rule = <<>>
    /\ Len(rewrittenRules)
         <= Cardinality({i \in DOMAIN lineLog : IsCandidateLine(lineLog[i].line)})

\* ------------------------------------------------------------------------
\* C10: the targets stay in the directory of their file
\* ------------------------------------------------------------------------

\* C10: the target of every rule added by a candidate line that carries an
\* owner list is the scope of the file of the line or a path below it; for
\* the file of the root, "*" or a path that starts with "/".
C10_ScopeContainment ==
    \A i \in DOMAIN lineLog :
        (/\ lineLog[i].rule # <<>>
         /\ IsCandidateLine(lineLog[i].line)
         /\ Contains(lineLog[i].line, "@")) =>
            LET target == SplitN2(lineLog[i].rule, " ")[1]
                scope == ScopeOf(lineLog[i].file)
            IN  IF scope = <<>>
                THEN target = <<"*">> \/ HasPrefix(target, <<"/">>)
                ELSE target = scope \/ HasPrefix(target, scope \o <<"/">>)

====
